---- MODULE Spec2Model ----
(***************************************************************************)
(* Binary clock applet (src/src/app.rs): the application model, its update *)
(* handler, view, and the canvas program that draws the six BCD columns.   *)
(*                                                                         *)
(* Lengths on the canvas are f32 in the source.  Every length the program  *)
(* computes from an integral bounds height is a multiple of 1/(ROWS*2),    *)
(* which f32 represents exactly, so a length v is held here as the integer *)
(* v * Unit with Unit = ROWS * 2.                                          *)
(***************************************************************************)
EXTENDS Integers, Naturals, Sequences, FiniteSets, TLC

\* ------------------------------------------------------------- constants
UTC_OFFSET_SECONDS == 3600
ROWS == 4
\* let padding = 14.0;
padding == 14

\* ---------------------------------------------------------------- bounds
\* Number of distinct bounds heights the layout may hand to draw.
MaxHeightSteps == 2
\* Seconds that may pass on the system clock after init.
MaxElapsed == 2
\* Number of popups (calls of Id::unique) in one run.
MaxPopups == 2

Unit == ROWS * 2
SecondsPerDay == 24 * 60 * 60
\* Heights of the canvas bounds: padding + ROWS, padding + 2*ROWS, ...
\* The panel gives the canvas more height than the padding, so the radius is
\* positive; a height of at most the padding would give circles of radius <= 0.
Heights == {padding + ROWS * k : k \in 1..MaxHeightSteps}
Cursors == {"Available", "Unavailable"}
Configs == {"cfgA", "cfgB"}
\* The UTC second of the day at which UTC+offset reads h:m:s.
ClockAt(h, m, s) ==
    (h * 3600 + m * 60 + s + SecondsPerDay - UTC_OFFSET_SECONDS) % SecondsPerDay
\* Times at which the application is started.
StartClocks ==
    {ClockAt(0, 0, 0), ClockAt(13, 5, 9), ClockAt(23, 59, 59), ClockAt(9, 59, 58),
     ClockAt(17, 38, 8)}

\* ----------------------------------------------------------------- state
VARIABLES
    clock,          \* what the system clock read at the last Local::now():
                    \* the UTC second of the day
    elapsed,        \* seconds passed on the system clock since init
    app,            \* the AppModel: current_time, popup, config, example_row
    next_id,        \* number of ids Id::unique() has handed out
    widget,         \* the ClockWidget of the canvas built by the last view()
    ui_stale,       \* update ran since the runtime last rebuilt the view
    handled,        \* the callback the runtime invoked last, and the id it carried
    last,           \* input and output of the most recent draw
    repeat          \* the most recent draw had the inputs of the one before it

vars == <<clock, elapsed, app, next_id, widget, ui_stale, handled, last, repeat>>

\* ------------------------------------------------------------------ time
\* Local::now().with_timezone(&offset): the instant with a fixed offset.
with_timezone(now, offset) == [utc |-> now, offset |-> offset]

\* chrono's local second of the day of a DateTime<FixedOffset>.
LocalSeconds(t) == (t.utc + t.offset) % SecondsPerDay

\* Timelike::hour / minute / second
hour(t) == LocalSeconds(t) \div 3600
minute(t) == (LocalSeconds(t) % 3600) \div 60
second(t) == LocalSeconds(t) % 60

\* ------------------------------------------------------------- rendering
\* a & b on unsigned integers
RECURSIVE BitAnd(_, _)
BitAnd(a, b) ==
    IF a = 0 \/ b = 0 THEN 0
    ELSE (a % 2) * (b % 2) + 2 * BitAnd(a \div 2, b \div 2)

\* 1 << n
Shl1(n) == 2 ^ n

active_color == "active"
inactive_color == "inactive"

\* A faulty variant: the bit test written as == 1.
circle_color_eq_one(number, circle_row) ==
    IF BitAnd(number, Shl1(circle_row)) = 1 THEN active_color ELSE inactive_color

\* if number & (1 << circle_row) != 0 { active_color } else { inactive_color }
circle_color(number, circle_row) ==
    IF BitAnd(number, Shl1(circle_row)) # 0 THEN active_color ELSE inactive_color

\* A faulty variant: the range without rev().
RowsForward == [k \in 1..ROWS |-> k - 1]

\* (0..ROWS as usize).rev()
RowsRev == [k \in 1..ROWS |-> ROWS - k]

\* The for loop of column(): one circle per circle_row, position.y moved
\* down by radius * 2 after each fill.
RECURSIVE ColumnLoop(_, _, _, _, _)
ColumnLoop(rows, position, radius, number, frame) ==
    IF rows = <<>> THEN frame
    ELSE ColumnLoop(Tail(rows),
                    [position EXCEPT !.y = @ + radius * 2],
                    radius, number,
                    Append(frame, [x |-> position.x, y |-> position.y,
                                   radius |-> radius,
                                   color |-> circle_color(number, Head(rows))]))

\* A faulty variant: position.y += radius left out.
column_on_boundary(index, number, height) ==
    LET available_height == height * Unit - padding * Unit
        radius == available_height \div (ROWS * 2)
        start == [x |-> (radius * 2) * index, y |-> (padding * Unit) \div 2]
        position == [x |-> start.x + radius, y |-> start.y]
    IN  ColumnLoop(RowsRev, position, radius, number, <<>>)

\* ClockWidget::column(index, number, renderer, bounds)
column(index, number, height) ==
    LET available_height == height * Unit - padding * Unit
        radius == available_height \div (ROWS * 2)
        start == [x |-> (radius * 2) * index, y |-> (padding * Unit) \div 2]
        position == [x |-> start.x + radius, y |-> start.y + radius]
    IN  ColumnLoop(RowsRev, position, radius, number, <<>>)

\* A faulty variant: the seconds column takes second() / 10 like the column before it.
draw_seconds_tens_twice(self, height, cursor) ==
    <<column(0, hour(self.current_time) \div 10, height),
      column(1, hour(self.current_time) % 10, height),
      column(2, minute(self.current_time) \div 10, height),
      column(3, minute(self.current_time) % 10, height),
      column(4, second(self.current_time) \div 10, height),
      column(5, second(self.current_time) \div 10, height)>>

\* A faulty variant: the seconds column drawn at index 4 like the column before it.
draw_index_repeated(self, height, cursor) ==
    <<column(0, hour(self.current_time) \div 10, height),
      column(1, hour(self.current_time) % 10, height),
      column(2, minute(self.current_time) \div 10, height),
      column(3, minute(self.current_time) % 10, height),
      column(4, second(self.current_time) \div 10, height),
      column(4, second(self.current_time) % 10, height)>>

\* A faulty variant: the two hour columns take each other's digit.
draw_hours_swapped(self, height, cursor) ==
    <<column(0, hour(self.current_time) % 10, height),
      column(1, hour(self.current_time) \div 10, height),
      column(2, minute(self.current_time) \div 10, height),
      column(3, minute(self.current_time) % 10, height),
      column(4, second(self.current_time) \div 10, height),
      column(5, second(self.current_time) % 10, height)>>

\* A faulty variant: every circle lit while the cursor is on the window.
draw_hover(self, height, cursor) ==
    IF cursor = "Available"
    THEN [i \in 1..6 |-> column(i - 1, 15, height)]
    ELSE <<column(0, hour(self.current_time) \div 10, height),
           column(1, hour(self.current_time) % 10, height),
           column(2, minute(self.current_time) \div 10, height),
           column(3, minute(self.current_time) % 10, height),
           column(4, second(self.current_time) \div 10, height),
           column(5, second(self.current_time) % 10, height)>>

\* ClockWidget::draw(&self, _state, renderer, _theme, bounds, _cursor)
draw(self, height, cursor) ==
    LET hours_tens_place == column(0, hour(self.current_time) \div 10, height)
        hours == column(1, hour(self.current_time) % 10, height)
        ten_minutes == column(2, minute(self.current_time) \div 10, height)
        minutes == column(3, minute(self.current_time) % 10, height)
        tenth_seconds == column(4, second(self.current_time) \div 10, height)
        seconds == column(5, second(self.current_time) % 10, height)
    IN  <<hours_tens_place, hours, ten_minutes, minutes, tenth_seconds, seconds>>

NoWidget == [mode |-> "None"]
NoDraw == [drawn |-> FALSE]
Callback(name, id) == [name |-> name, id |-> id]

\* ------------------------------------------------------------ AppModel
\* AppModel::init: AppModel { current_time, core, config, ..Default::default() }
init(now, loaded_config) ==
    [current_time |-> with_timezone(now, UTC_OFFSET_SECONDS),
     popup |-> {},
     config |-> loaded_config,
     example_row |-> FALSE]

\* DateTime::<FixedOffset>::default()
DefaultTime == [utc |-> 0, offset |-> 0]

\* A faulty variant: the widget built without the model's time.
view_default_time(self) == [current_time |-> DefaultTime, mode |-> "BCD"]

\* AppModel::view: the ClockWidget handed to the canvas
view(self) == [current_time |-> self.current_time, mode |-> "BCD"]

\* Message::Tick => self.current_time = Local::now().with_timezone(&offset)
update_Tick(self, now) ==
    [self EXCEPT !.current_time = with_timezone(now, UTC_OFFSET_SECONDS)]

\* Message::SubscriptionChannel => {}
update_SubscriptionChannel(self) == self

\* A faulty variant: the model rebuilt as AppModel { config, ..Default::default() }.
update_UpdateConfig_rebuilt(self, new_config) ==
    [current_time |-> DefaultTime, popup |-> {}, config |-> new_config,
     example_row |-> FALSE]

\* Message::UpdateConfig(config) => self.config = config
update_UpdateConfig(self, new_config) == [self EXCEPT !.config = new_config]

\* Message::ToggleExampleRow(toggled) => self.example_row = toggled
update_ToggleExampleRow(self, toggled) == [self EXCEPT !.example_row = toggled]

\* Message::TogglePopup: self.popup.take() is Some: destroy_popup; else
\* self.popup.replace(Id::unique()) and get_popup
update_TogglePopup(self, new_id) ==
    IF self.popup # {} THEN [self EXCEPT !.popup = {}]
    ELSE [self EXCEPT !.popup = {new_id}]

\* A faulty variant: the popup cleared whatever id was closed.
update_PopupClosed_any(self, id) == [self EXCEPT !.popup = {}]

\* Message::PopupClosed(id): if self.popup.as_ref() == Some(&id) { self.popup = None }
update_PopupClosed(self, id) ==
    IF self.popup = {id} THEN [self EXCEPT !.popup = {}] ELSE self

\* --------------------------------------------------------------- actions
Init ==
    /\ clock \in StartClocks
    /\ elapsed = 0
    /\ \E loaded_config \in Configs : app = init(clock, loaded_config)
    /\ next_id = 0
    /\ widget = NoWidget
    /\ ui_stale = TRUE
    /\ handled = Callback("init", 0)
    /\ last = NoDraw
    /\ repeat = FALSE

\* The runtime rebuilds the interface from view() after update returned.
View ==
    /\ widget' = view(app)
    /\ ui_stale' = FALSE
    /\ handled' = Callback("view", 0)
    /\ UNCHANGED <<clock, elapsed, app, next_id, last, repeat>>

\* One call of draw on the canvas's ClockWidget.
DrawFrame(height, cursor) ==
    last' = [drawn |-> TRUE, self |-> widget, height |-> height,
             geometry |-> draw(widget, height, cursor)]

\* The runtime draws the canvas of the interface it holds; it holds none
\* older than the last update.
Draw ==
    /\ ~ui_stale
    /\ \E height \in Heights, cursor \in Cursors :
         /\ DrawFrame(height, cursor)
         /\ repeat' = (last.drawn /\ last.self = widget /\ last.height = height)
    /\ handled' = Callback("draw", 0)
    /\ UNCHANGED <<clock, elapsed, app, next_id, widget, ui_stale>>

\* update returned: the interface the runtime holds is out of date.
Updated(name, id) ==
    /\ handled' = Callback(name, id)
    /\ ui_stale' = TRUE
    /\ UNCHANGED <<widget, last, repeat>>

\* The timer fires; the system clock has moved on by e seconds since it was
\* last read.
Tick ==
    /\ \E e \in 0..(MaxElapsed - elapsed) :
         /\ clock' = (clock + e) % SecondsPerDay
         /\ elapsed' = elapsed + e
    /\ app' = update_Tick(app, clock')
    /\ Updated("Tick", 0)
    /\ UNCHANGED next_id

SubscriptionChannel ==
    /\ app' = update_SubscriptionChannel(app)
    /\ Updated("SubscriptionChannel", 0)
    /\ UNCHANGED <<clock, elapsed, next_id>>

UpdateConfig ==
    /\ \E new_config \in Configs : app' = update_UpdateConfig(app, new_config)
    /\ Updated("UpdateConfig", 0)
    /\ UNCHANGED <<clock, elapsed, next_id>>

ToggleExampleRow ==
    /\ \E toggled \in BOOLEAN : app' = update_ToggleExampleRow(app, toggled)
    /\ Updated("ToggleExampleRow", 0)
    /\ UNCHANGED <<clock, elapsed, next_id>>

\* Id::unique() is called only when no popup is stored.
TogglePopup ==
    /\ app.popup # {} \/ next_id < MaxPopups
    /\ next_id' = IF app.popup # {} THEN next_id ELSE next_id + 1
    /\ app' = update_TogglePopup(app, next_id + 1)
    /\ Updated("TogglePopup", 0)
    /\ UNCHANGED <<clock, elapsed>>

\* on_close_requested(id) => PopupClosed(id); id is the id of a window in
\* existence now or earlier: the main window's (0) or one Id::unique() returned.
PopupClosed ==
    /\ \E id \in 0..next_id :
         /\ app' = update_PopupClosed(app, id)
         /\ Updated("PopupClosed", id)
    /\ UNCHANGED <<clock, elapsed, next_id>>

Next ==
    \/ View
    \/ Draw
    \/ Tick
    \/ SubscriptionChannel
    \/ UpdateConfig
    \/ ToggleExampleRow
    \/ TogglePopup
    \/ PopupClosed

Spec == Init /\ [][Next]_vars

\* The renderer alone: every time of day, shown by the first view.
InitRender ==
    /\ clock \in 0..(SecondsPerDay - 1)
    /\ elapsed = 0
    /\ app = init(clock, "cfgA")
    /\ next_id = 0
    /\ widget = view(app)
    /\ ui_stale = FALSE
    /\ handled = Callback("view", 0)
    /\ last = NoDraw
    /\ repeat = FALSE

\* draw applied to every time and every height; the cursor, which draw does
\* not read, is the one of a window the pointer is not on.
Render ==
    /\ \E height \in Heights : DrawFrame(height, "Unavailable")
    /\ handled' = Callback("draw", 0)
    /\ UNCHANGED <<clock, elapsed, app, next_id, widget, ui_stale, repeat>>

NextRender == Render

SpecRender == InitRender /\ [][NextRender]_vars

\* ------------------------------------------------------------- reading
\* What a frame shows, read back from its circles.

\* The six digits of a time, as the clock face is meant to show them.
Digits(t) ==
    <<hour(t) \div 10, hour(t) % 10, minute(t) \div 10, minute(t) % 10,
      second(t) \div 10, second(t) % 10>>

\* (d >> b) & 1 == 1
BitSet(d, b) == (d \div (2 ^ b)) % 2 = 1

Lit(circle) == circle.color = active_color

\* The value a column shows: its circles in fill order, most significant first.
Shown(col) ==
    LET RECURSIVE Value(_)
        Value(k) == IF k > Len(col) THEN 0
                    ELSE (IF Lit(col[k]) THEN 2 ^ (Len(col) - k) ELSE 0) + Value(k + 1)
    IN  Value(1)

ShownDigits(geometry) == [i \in 1..Len(geometry) |-> Shown(geometry[i])]

\* The bit positions a column lights, the circle filled for circle_row b
\* being the (ROWS - b)-th fill of the loop.
LitBits(col) == {b \in 0..(ROWS - 1) : Lit(col[ROWS - b])}

\* The column index a column was laid out for, from its x-center.
IndexOf(col) == (col[1].x - col[1].radius) \div (2 * col[1].radius)

\* The circle of a column at a given rank from the top (0 is the top).
Ranked(col, rank) ==
    LET top == CHOOSE c \in 1..Len(col) : \A k \in 1..Len(col) : col[c].y <= col[k].y
    IN  {k \in 1..Len(col) : col[k].y = col[top].y + rank * 2 * col[k].radius}

RECURSIVE CircleCount(_)
CircleCount(geometry) ==
    IF geometry = <<>> THEN 0 ELSE Len(Head(geometry)) + CircleCount(Tail(geometry))

\* The time the most recent draw read, field by field.
DrawnHour == hour(last.self.current_time)
DrawnMinute == minute(last.self.current_time)
DrawnSecond == second(last.self.current_time)
DrawnAt(h, m, s) ==
    last.drawn /\ DrawnHour = h /\ DrawnMinute = m /\ DrawnSecond = s

\* ---------------------------------------------------------------- claims

\* C1: for every stored time (hour 0..23, minute and second 0..59) draw hands
\* columns 0..5 the digits h/10, h%10, m/10, m%10, s/10, s%10 in that order;
\* tens*10+ones gives the field back, the hour tens digit is 0, 1 or 2 and
\* every digit is in 0..9.
C1_DigitsPassedInOrder ==
    last.drawn =>
        LET d == ShownDigits(last.geometry)
            h == DrawnHour
            m == DrawnMinute
            s == DrawnSecond
        IN  /\ h \in 0..23 /\ m \in 0..59 /\ s \in 0..59
            /\ Len(last.geometry) = 6
            /\ \A i \in 1..6 : IndexOf(last.geometry[i]) = i - 1
            /\ d = <<h \div 10, h % 10, m \div 10, m % 10, s \div 10, s % 10>>
            /\ d[1] * 10 + d[2] = h
            /\ d[3] * 10 + d[4] = m
            /\ d[5] * 10 + d[6] = s
            /\ d[1] \in {0, 1, 2}
            /\ \A i \in 1..6 : d[i] \in 0..9

C1_Witness == DrawnAt(23, 59, 48)

\* C2: for every digit d in 0..9 and bit position b in 0..3 the circle column
\* fills for bit position b is active exactly when (d >> b) & 1 == 1; 00:00:00
\* gives 24 inactive circles; 13:05:09 gives the digits 1,3,0,5,0,9, column 0
\* lighting bit 0 only, column 1 bits 0 and 1, column 5 bits 0 and 3.
C2_CircleLitIffBitSet ==
    last.drawn =>
        LET g == last.geometry
            d == Digits(last.self.current_time)
        IN  /\ \A i \in 1..6 : \A b \in 0..3 :
                 /\ d[i] \in 0..9
                 /\ g[i][ROWS - b].color \in {active_color, inactive_color}
                 /\ (g[i][ROWS - b].color = active_color) <=> BitSet(d[i], b)
            /\ DrawnAt(0, 0, 0) =>
                 /\ CircleCount(g) = 24
                 /\ \A i \in 1..6 : \A k \in 1..4 : g[i][k].color = inactive_color
            /\ DrawnAt(13, 5, 9) =>
                 /\ d = <<1, 3, 0, 5, 0, 9>>
                 /\ ShownDigits(g) = <<1, 3, 0, 5, 0, 9>>
                 /\ LitBits(g[1]) = {0}
                 /\ LitBits(g[2]) = {0, 1}
                 /\ LitBits(g[6]) = {0, 3}

C2_Witness == DrawnAt(13, 5, 9) /\ LitBits(last.geometry[4]) = {0, 2}

\* C3: within a column the circles run top to bottom as bit 3, 2, 1, 0: the
\* circle with the smallest y-center encodes the most significant bit and each
\* circle 2*radius further down the next lower bit; 23:59:59 lights bit 1 only
\* in column 0 and the patterns of 5 and 9 in columns 2..5.
C3_MostSignificantBitOnTop ==
    last.drawn =>
        LET g == last.geometry
            d == Digits(last.self.current_time)
            Pattern(col) ==
                [rank \in 0..3 |-> \E k \in Ranked(col, rank) : Lit(col[k])]
            Five == [rank \in 0..3 |-> rank \in {1, 3}]
            Nine == [rank \in 0..3 |-> rank \in {0, 3}]
        IN  /\ \A i \in 1..6 : \A rank \in 0..3 :
                 /\ Cardinality(Ranked(g[i], rank)) = 1
                 /\ \A k \in Ranked(g[i], rank) :
                      /\ g[i][k].radius > 0
                      /\ Lit(g[i][k]) <=> BitSet(d[i], 3 - rank)
            /\ DrawnAt(23, 59, 59) =>
                 /\ Pattern(g[1]) = [rank \in 0..3 |-> rank = 2]
                 /\ Pattern(g[3]) = Five
                 /\ Pattern(g[4]) = Nine
                 /\ Pattern(g[5]) = Five
                 /\ Pattern(g[6]) = Nine

C3_Witness ==
    /\ DrawnAt(23, 59, 59)
    /\ last.geometry[1][3].y > last.geometry[1][2].y
    /\ Lit(last.geometry[1][3])

\* C4: every draw, whatever the stored time and the bounds, returns exactly 6
\* column geometries, one for each column index 0..5, each of exactly 4
\* circles: 24 circles a frame.
C4_SixColumnsOfFourCircles ==
    last.drawn =>
        LET g == last.geometry
        IN  /\ Len(g) = 6
            /\ \A i \in 1..Len(g) : Len(g[i]) = 4
            /\ {IndexOf(g[i]) : i \in 1..Len(g)} = 0..5
            /\ \A i, j \in 1..Len(g) : IndexOf(g[i]) = IndexOf(g[j]) => i = j
            /\ CircleCount(g) = 24

C4_Witness ==
    /\ last.drawn
    /\ last.height = padding + ROWS
    /\ DrawnHour = 7
    /\ CircleCount(last.geometry) = 24

\* C5: for a bounds height H with H - P a multiple of 8 (P = 14) every circle
\* has radius r = (H - P)/8, and the circle of column i (0..5) at row k from
\* the top (0..3) has x-center r*(2*i+1) and y-center P/2 + r*(2*k+1).
\* Lengths are held times Unit, so the equations are stated times Unit.
C5_Layout ==
    (last.drawn /\ (last.height - 14) % 8 = 0) =>
        LET r == (last.height - 14) \div 8
        IN  \A i \in 0..5 : \A k \in 0..3 :
                LET c == last.geometry[i + 1][k + 1]
                IN  /\ c.radius = Unit * r
                    /\ c.x = Unit * (r * (2 * i + 1))
                    /\ 2 * c.y = Unit * (14 + 2 * (r * (2 * k + 1)))

C5_Witness ==
    /\ last.drawn
    /\ (last.height - 14) % 8 = 0
    /\ last.geometry[6][4].radius = Unit
    /\ last.geometry[6][4].x = Unit * 11

\* C7: the top circle of a column is active only when the column's digit is 8
\* or 9; the tens columns 0, 2 and 4 never light their top circle.
C7_TopCircleOnlyForEightAndNine ==
    last.drawn =>
        LET g == last.geometry
            d == Digits(last.self.current_time)
        IN  \A i \in 1..6 : \A k \in Ranked(g[i], 0) :
                /\ Lit(g[i][k]) => d[i] \in {8, 9}
                /\ (i - 1) \in {0, 2, 4} => ~Lit(g[i][k])

C7_Witness ==
    /\ last.drawn
    /\ DrawnHour = 19
    /\ \E k \in Ranked(last.geometry[2], 0) : Lit(last.geometry[2][k])
    /\ \E k \in Ranked(last.geometry[6], 0) : Lit(last.geometry[6][k])

C8_OnlyTickWritesTime ==
    [][/\ handled'.name # "Tick" => app'.current_time = app.current_time
       /\ handled'.name \in {"view", "draw"} => app' = app]_vars

C8_Witness ==
    /\ handled.name = "draw"
    /\ app.example_row
    /\ app.popup = {2}
    /\ elapsed = MaxElapsed
    /\ last.self.current_time = app.current_time

\* C9: the six digits a redraw shows are those of the time the most recent
\* Tick sampled (init's, before the first Tick): never an older time, never a
\* time that was not stored.
C9_FrameShowsLastSample ==
    handled.name = "draw" =>
        LET sample == with_timezone(clock, UTC_OFFSET_SECONDS)
        IN  /\ last.drawn
            /\ ShownDigits(last.geometry) = Digits(sample)
            /\ last.self.current_time = app.current_time
            /\ Digits(app.current_time) = Digits(sample)

C9_Witness ==
    /\ handled.name = "draw"
    /\ elapsed = MaxElapsed
    /\ ShownDigits(last.geometry) = <<0, 0, 0, 0, 0, 1>>

\* C10: TogglePopup with no popup stored stores an id never handed out before,
\* TogglePopup with a popup stored clears it, PopupClosed(id) clears the stored
\* popup only when id is the stored id, so a late PopupClosed of an earlier
\* popup leaves a later popup stored; at most one popup id is stored.
C10_PopupLifecycle ==
    [][/\ (handled'.name = "TogglePopup" /\ app.popup = {}) =>
            /\ Cardinality(app'.popup) = 1
            /\ app'.popup \cap (0..next_id) = {}
       /\ (handled'.name = "TogglePopup" /\ app.popup # {}) => app'.popup = {}
       /\ handled'.name = "PopupClosed" =>
            /\ app.popup = {handled'.id} => app'.popup = {}
            /\ app.popup # {handled'.id} => app'.popup = app.popup
       /\ Cardinality(app'.popup) <= 1]_vars

C10_Witness ==
    /\ handled = Callback("PopupClosed", 1)
    /\ app.popup = {2}

====
